---- MODULE Spec2Model ----
(***************************************************************************)
(* A model of the eigentrust-protocol core:                                *)
(*   - src/src/peer.rs: Peer (new, add_neighbor, heartbeat, accessors)     *)
(*   - src/circuit/src/gadgets/absorb.rs: copy_state and AbsorbChip        *)
(*     (configure, synthesize)                                             *)
(* f64 scores are modelled as fixed-point numbers with resolution 1/Scale, *)
(* products rounded to the nearest unit.  Field elements are integers      *)
(* modulo FieldModulus.                                                    *)
(***************************************************************************)
EXTENDS Integers, Sequences, FiniteSets, TLC

VARIABLES
    peers,      \* index -> Peer: the live peers
    snapshot,   \* sequence of Peer: the slice handed to heartbeat as `neighbors`
    panicked,   \* TRUE once a call has panicked (the process unwinds)
    last,       \* the last Peer call: its name, receiver, arguments, receiver before
    calls,      \* number of add_neighbor / heartbeat calls made so far
    run,        \* the round loop: pc, round, pending peers, inputs, outcome
    chip,       \* AbsorbChip: prev_state and state, the caller's assigned cells
    advice,     \* the advice columns: row -> column -> assigned?, placed how, value
    selectors,  \* rows at which the absorb selector is enabled
    copies,     \* the copy (equality) constraints recorded: pairs of cells
    ctx,        \* synthesize: its position, the RegionCtx offset, the cells loaded
    output,     \* what synthesize returned: nothing yet, Ok(cells) or Err
    verdict     \* what verifying the assignment found: gates and copies satisfied?

peerVars == <<peers, snapshot, panicked, last, calls, run>>
chipVars == <<chip, advice, selectors, copies, ctx, output, verdict>>
vars == <<peers, snapshot, panicked, last, calls, run,
          chip, advice, selectors, copies, ctx, output, verdict>>

-----------------------------------------------------------------------------
(* Bounds of the model *)

\* Largest number of peers in a network.
NumPeers == 2
\* Number of add_neighbor / heartbeat calls in a behaviour of Spec.
MaxCalls == 2
\* Round budget of the round loop in SpecEngine.
MaxRounds == 3
MassRounds == 2
\* Width of the sponge state (the const generic WIDTH of the chip).
WIDTH == 2
\* Rows of the assignment table.
TableRows == 6

-----------------------------------------------------------------------------
(* f64 arithmetic, as fixed point *)

\* One unit is 10^-8.
Scale == 10 ^ 8
SplitBase == 10 ^ 4

\* f64::zero(), f64::one()
Zero == 0
One == Scale

\* f64::abs
Abs(x) == IF x < 0 THEN 0 - x ELSE x

\* |a| * |b| / Scale rounded to the nearest unit, computed in two limbs so
\* that no intermediate value leaves the machine integers.
MulAbs(a, b) ==
    LET a1 == a \div SplitBase
        a0 == a % SplitBase
        b1 == b \div SplitBase
        b0 == b % SplitBase
        m  == a1 * b0 + a0 * b1
        m1 == m \div SplitBase
        m0 == m % SplitBase
        low == m0 * SplitBase + a0 * b0
    IN  a1 * b1 + m1 + ((low + (Scale \div 2)) \div Scale)

\* f64 multiplication
Mul(a, b) ==
    IF (a < 0) = (b < 0) THEN MulAbs(Abs(a), Abs(b))
    ELSE 0 - MulAbs(Abs(a), Abs(b))

-----------------------------------------------------------------------------
(* Peer *)

\* BTreeMap::new()
EmptyMap == [k \in {} |-> 0]

\* BTreeMap::insert
MapInsert(m, k, v) == [x \in (DOMAIN m) \cup {k} |-> IF x = k THEN v ELSE m[x]]

\* Peer::new
new(index, global_trust_score, pre_trust_score) ==
    [ index              |-> index,
      local_trust_scores |-> EmptyMap,
      global_trust_score |-> global_trust_score,
      pre_trust_score    |-> pre_trust_score,
      is_converged       |-> FALSE ]

\* add_neighbor clearing the latch, so that the new edge is taken up
add_neighbor_Relatch(self, peer_index, local_trust_value) ==
    [self EXCEPT !.local_trust_scores = MapInsert(@, peer_index, local_trust_value),
                 !.is_converged = FALSE]

\* add_neighbor keeping the weight a neighbor already has
add_neighbor_KeepFirst(self, peer_index, local_trust_value) ==
    IF peer_index \in DOMAIN self.local_trust_scores THEN self
    ELSE [self EXCEPT !.local_trust_scores =
                          MapInsert(@, peer_index, local_trust_value)]

\* Peer::add_neighbor
add_neighbor(self, peer_index, local_trust_value) ==
    [self EXCEPT !.local_trust_scores = MapInsert(@, peer_index, local_trust_value)]

\* is_converged answering for a peer that never converges
is_converged_Never(self) == FALSE

\* Peer::is_converged
is_converged(self) == self.is_converged

\* Peer::get_global_trust_score
get_global_trust_score(self) == self.global_trust_score

\* Peer::get_pre_trust_score
get_pre_trust_score(self) == self.pre_trust_score

\* Peer::get_index
get_index(self) == self.index

\* Index of a BTreeMap by key: `map[i]` panics when the key is absent.
IndexPanics(self, i) == i \notin DOMAIN self.local_trust_scores

\* Peer::get_local_trust_score, where it does not panic
get_local_trust_score(self, i) == self.local_trust_scores[i]

\* The skip of the peer's own entry left out
IsSamePeer_Never(self, neighbor_j) == FALSE

\* heartbeat: the test that skips the peer's own entry of `neighbors`
IsSamePeer(self, neighbor_j) == self.index = get_index(neighbor_j)

\* heartbeat: one neighbour's opinion of the peer
neighbor_opinion(self, neighbor_j) ==
    Mul(get_local_trust_score(neighbor_j, self.index),
        get_global_trust_score(neighbor_j))

\* heartbeat: the loop over `neighbors`, from position k with the sum so far.
\* The result says whether the lookup panicked, and the sum.
RECURSIVE NeighborLoop(_, _, _, _)
NeighborLoop(self, neighbors, k, acc) ==
    IF k > Len(neighbors) THEN [panicked |-> FALSE, sum |-> acc]
    ELSE IF IsSamePeer(self, neighbors[k])
         THEN NeighborLoop(self, neighbors, k + 1, acc)
    ELSE IF IndexPanics(neighbors[k], self.index)
         THEN [panicked |-> TRUE, sum |-> acc]
    ELSE NeighborLoop(self, neighbors, k + 1,
                      acc + neighbor_opinion(self, neighbors[k]))

\* The blend with its two weights exchanged: a*ti + (1 - a)*p_i
Blend_Swapped(pre_trust_weight, ti, pre_trust_score) ==
    Mul(pre_trust_weight, ti) + Mul(One - pre_trust_weight, pre_trust_score)

\* heartbeat: (1 - a)*ti + a*p_i
Blend(pre_trust_weight, ti, pre_trust_score) ==
    Mul(One - pre_trust_weight, ti) + Mul(pre_trust_weight, pre_trust_score)

\* The new score committed only while the peer has not converged
Commit_UnlessLatched(self, new_global_trust_score, delta) ==
    LET diff == Abs(new_global_trust_score - self.global_trust_score)
    IN  IF diff <= delta THEN [self EXCEPT !.is_converged = TRUE]
        ELSE [self EXCEPT !.global_trust_score = new_global_trust_score]

\* The latch taken only when the score moved by less than delta
Commit_StrictlyWithin(self, new_global_trust_score, delta) ==
    LET diff == Abs(new_global_trust_score - self.global_trust_score)
    IN  [self EXCEPT !.is_converged = IF diff < delta THEN TRUE ELSE @,
                     !.global_trust_score = new_global_trust_score]

\* The new score assigned to the pre-trust field as well
Commit_IntoPreTrust(self, new_global_trust_score, delta) ==
    LET diff == Abs(new_global_trust_score - self.global_trust_score)
    IN  [self EXCEPT !.is_converged = IF diff <= delta THEN TRUE ELSE @,
                     !.global_trust_score = new_global_trust_score,
                     !.pre_trust_score = new_global_trust_score]

\* The difference compared with delta without its absolute value taken
Commit_Signed(self, new_global_trust_score, delta) ==
    LET diff == new_global_trust_score - self.global_trust_score
    IN  [self EXCEPT !.is_converged = IF diff <= delta THEN TRUE ELSE @,
                     !.global_trust_score = new_global_trust_score]

\* heartbeat: the latch and the commit of the new score
Commit(self, new_global_trust_score, delta) ==
    LET diff == Abs(new_global_trust_score - self.global_trust_score)
    IN  [self EXCEPT !.is_converged = IF diff <= delta THEN TRUE ELSE @,
                     !.global_trust_score = new_global_trust_score]

\* The early return left out
EarlyReturn_Never(self) == FALSE

\* heartbeat: the early return of a converged peer
EarlyReturn(self) == self.is_converged

\* Peer::heartbeat: whether the call panicked, and the peer after the call
heartbeat(self, neighbors, delta, pre_trust_weight) ==
    IF EarlyReturn(self) THEN [panicked |-> FALSE, peer |-> self]
    ELSE LET loop == NeighborLoop(self, neighbors, 1, Zero)
         IN  IF loop.panicked THEN [panicked |-> TRUE, peer |-> self]
             ELSE [panicked |-> FALSE,
                   peer |-> Commit(self,
                                   Blend(pre_trust_weight, loop.sum,
                                         self.pre_trust_score),
                                   delta)]

\* #[derive(Clone)] on Peer, applied to the peers in index order
RECURSIVE CloneAll(_, _, _)
CloneAll(ps, k, n) ==
    IF k >= n THEN <<>> ELSE <<ps[k]>> \o CloneAll(ps, k + 1, n)

-----------------------------------------------------------------------------
(* The absorb gadget: field values, cells, the region, the gate *)

\* The field F: FieldExt, here the integers modulo a small prime.
FieldModulus == 13
Field == 0 .. (FieldModulus - 1)

\* Field addition, subtraction, multiplication
Fadd(a, b) == (a + b) % FieldModulus
Fsub(a, b) == (a + FieldModulus - b) % FieldModulus
Fmul(a, b) == (a * b) % FieldModulus

\* Value<F>: unknown, or a known field element
Unknown == [known |-> FALSE, v |-> 0]
Known(x) == [known |-> TRUE, v |-> x]

\* The advice columns the chip uses, common.advice[0..WIDTH]
Columns == 0 .. (WIDTH - 1)
Rows == 0 .. (TableRows - 1)

\* AssignedCell<F, F>: a position of the table and the value assigned there
AssignedCell(row, column, value) == [cell |-> <<row, column>>, value |-> value]

\* A table position nothing has been assigned to
Unassigned == [assigned |-> FALSE, how |-> "none", value |-> Unknown, forged |-> FALSE]

\* The table with `value` assigned at (row, column); `how` tells a free
\* assignment from a copy.
Put(tbl, row, column, how, value) ==
    [tbl EXCEPT ![row][column] =
        [assigned |-> TRUE, how |-> how, value |-> value, forged |-> FALSE]]

\* RegionCtx::enable: the selector is enabled at the current row.
enable(sels, row) == sels \cup {row}

\* RegionCtx::assign_advice: a free assignment at the current row.
\* The region is the table and the copy constraints recorded so far.
assign_advice(region, row, column, value) ==
    [region EXCEPT !.advice = Put(@, row, column, "free", value)]

\* RegionCtx::copy_assign: the value of `src` is assigned at the current
\* row and the new cell is constrained equal to `src`.
copy_assign(region, row, column, src) ==
    [advice |-> Put(region.advice, row, column, "copy", src.value),
     copies |-> region.copies \cup {<<<<row, column>>, src.cell>>}]

\* copy_state placing the value by a free assignment
copy_state_Free(region, row, i, prev_state) ==
    assign_advice(region, row, i, prev_state[i + 1].value)

\* copy_state: one turn of its loop, placing prev_state[i] in column i
copy_state(region, row, i, prev_state) ==
    copy_assign(region, row, i, prev_state[i + 1])

\* The chunk of a column paired with the previous state of the next column
zip_Shifted(loaded_chunk, loaded_state, k) ==
    <<loaded_chunk[k + 1], loaded_state[((k + 1) % WIDTH) + 1]>>

\* synthesize: loaded_chunk.zip(loaded_state).zip(columns), the pair that
\* goes with column k
zip(loaded_chunk, loaded_state, k) == <<loaded_chunk[k + 1], loaded_state[k + 1]>>

\* The sum with a zero standing in for an unknown operand
sum_Placeholder(chunk_value, pos_value) ==
    Known(Fadd(chunk_value.v, pos_value.v))

\* The chunk value assigned without the previous state added to it
sum_ChunkOnly(chunk_value, pos_value) == chunk_value

\* synthesize: the sum of one column,
\* chunk_state.value().and_then(|s| pos_state.value().map(|ps| s + ps))
sum(chunk_value, pos_value) ==
    IF ~chunk_value.known THEN Unknown
    ELSE IF ~pos_value.known THEN Unknown
    ELSE Known(Fadd(chunk_value.v, pos_value.v))

\* query_advice(column, Rotation(k)) at row r: rotations wrap around the table.
query_advice(tbl, r, column, k) ==
    LET e == tbl[(r + k) % TableRows][column]
    IN  IF e.assigned /\ e.value.known THEN e.value.v ELSE 0

\* query_selector at row r
query_selector(sels, r) == IF r \in sels THEN 1 ELSE 0

\* The gate with a sign slipped: next_sponge_exp - (sponge_exp - hasher_exp)
gate_diff_SignSlip(hasher_exp, sponge_exp, next_sponge_exp) ==
    Fsub(next_sponge_exp, Fsub(sponge_exp, hasher_exp))

\* configure: the difference the gate constrains,
\* next_sponge_exp - (sponge_exp + hasher_exp)
gate_diff(hasher_exp, sponge_exp, next_sponge_exp) ==
    Fsub(next_sponge_exp, Fadd(sponge_exp, hasher_exp))

\* configure: the term of the "absorb" gate for column i, evaluated at row r
absorb_gate(tbl, sels, r, i) ==
    Fmul(query_selector(sels, r),
         gate_diff(query_advice(tbl, r, i, 0),
                   query_advice(tbl, r, i, 1),
                   query_advice(tbl, r, i, 2)))

\* The gate holds: every term is zero at every row.
GateSatisfied(tbl, sels) ==
    \A r \in Rows, i \in Columns : absorb_gate(tbl, sels, r, i) = 0

\* The equality argument holds: the two cells of every copy constraint
\* carry the same value.
CopiesSatisfied(tbl, cps) ==
    \A pair \in cps :
        tbl[pair[1][1]][pair[1][2]].value = tbl[pair[2][1]][pair[2][2]].value

NoVerdict == [checked |-> FALSE, gates |-> FALSE, copies |-> FALSE]
NoOutput == [status |-> "none", cells |-> <<>>]
NoCtx == [pc |-> "idle", offset |-> 0, k |-> 0, region_start |-> 0,
          loaded_state |-> <<>>, loaded_chunk |-> <<>>, next_state |-> <<>>]

\* No chip is being synthesized.
NoChip ==
    /\ chip = [prev_state |-> <<>>, state |-> <<>>]
    /\ advice = [r \in Rows |-> [c \in Columns |-> Unassigned]]
    /\ selectors = {}
    /\ copies = {}
    /\ ctx = NoCtx
    /\ output = NoOutput
    /\ verdict = NoVerdict

-----------------------------------------------------------------------------
(* Inputs: the values calls are made with *)

Half == Scale \div 2
Quarter == Scale \div 4
Eighth == Scale \div 8

\* Local trust values passed to add_neighbor
Weights == {Half, One}
\* Initial global trust scores and pre-trust scores passed to Peer::new
InitScores == {Zero, Half}
PreTrusts == {Quarter, Half}
\* delta and pre_trust_weight passed to heartbeat
Deltas == {Zero, Eighth}
PreTrustWeights == {Zero, Half}

\* Peer indexes of a network of n peers (Index: From<usize>)
Indexes(n) == 0 .. (n - 1)

\* The trust graphs networks are built with: no edges at all; every pair of
\* distinct peers, the weight shared out evenly; every pair, a peer's
\* opinion of itself included.
Graphs == {"isolated", "complete", "full"}

EdgeWeight(graph, n) ==
    IF graph = "complete" /\ n > 1 THEN One \div (n - 1) ELSE Half

Targets(graph, n, i) ==
    IF graph = "isolated" THEN {}
    ELSE IF graph = "complete" THEN Indexes(n) \ {i}
    ELSE Indexes(n)

\* add_neighbor called once for every index of `targets`
RECURSIVE AddNeighbors(_, _, _)
AddNeighbors(self, targets, w) ==
    IF targets = {} THEN self
    ELSE LET j == CHOOSE x \in targets : TRUE
         IN  AddNeighbors(add_neighbor(self, j, w), targets \ {j}, w)

\* A network as its owner constructs it: Peer::new for every index, then
\* add_neighbor for every edge of the graph.
Network(n, graph, score, pre) ==
    [i \in Indexes(n) |->
        AddNeighbors(new(i, score, pre), Targets(graph, n, i),
                     EdgeWeight(graph, n))]

\* The peers of a slice whose index is in S, in the slice's order
RECURSIVE Restrict(_, _)
Restrict(slice, S) ==
    IF slice = <<>> THEN <<>>
    ELSE IF get_index(Head(slice)) \in S
         THEN <<Head(slice)>> \o Restrict(Tail(slice), S)
         ELSE Restrict(Tail(slice), S)

\* The slices heartbeat of peer i is called with: the whole snapshot, the
\* snapshot without i, i's own entry alone.
Slices(i) == {DOMAIN peers, (DOMAIN peers) \ {i}, {i}}

NoCall == [op |-> "new", i |-> 0, before |-> new(0, Zero, Zero),
           neighbors |-> <<>>, delta |-> Zero, pre_trust_weight |-> Zero,
           peer_index |-> 0, local_trust_value |-> Zero]

IdleRun == [pc |-> "idle", round |-> 0, pending |-> {}, delta |-> Zero,
            pre_trust_weight |-> Zero, budget |-> 0, outcome |-> "none"]

-----------------------------------------------------------------------------
(* The Peer interface, called in any order *)

Init ==
    /\ NoChip
    /\ \E graph \in {"isolated", "full"}, score \in InitScores :
           peers = Network(NumPeers, graph, score, Half)
    /\ snapshot = CloneAll(peers, 0, NumPeers)
    /\ panicked = FALSE
    /\ last = NoCall
    /\ calls = 0
    /\ run = IdleRun

\* peers[i].add_neighbor(peer_index, local_trust_value)
AddNeighbor(i, peer_index, local_trust_value) ==
    /\ ~panicked
    /\ calls < MaxCalls
    /\ peers' = [peers EXCEPT ![i] = add_neighbor(@, peer_index, local_trust_value)]
    /\ last' = [NoCall EXCEPT !.op = "add_neighbor", !.i = i, !.before = peers[i],
                              !.peer_index = peer_index,
                              !.local_trust_value = local_trust_value]
    /\ calls' = calls + 1
    /\ UNCHANGED <<snapshot, panicked, run>>
    /\ UNCHANGED chipVars

\* The caller clones the peers into a slice.
Snapshot ==
    /\ ~panicked
    /\ snapshot # CloneAll(peers, 0, Cardinality(DOMAIN peers))
    /\ snapshot' = CloneAll(peers, 0, Cardinality(DOMAIN peers))
    /\ UNCHANGED <<peers, panicked, last, calls, run>>
    /\ UNCHANGED chipVars

\* The state change of peers[i].heartbeat(neighbors, delta, pre_trust_weight)
HeartbeatCall(i, neighbors, delta, pre_trust_weight) ==
    LET res == heartbeat(peers[i], neighbors, delta, pre_trust_weight)
    IN  /\ peers' = [peers EXCEPT ![i] = res.peer]
        /\ panicked' = res.panicked
        /\ last' = [NoCall EXCEPT !.op = "heartbeat", !.i = i, !.before = peers[i],
                                  !.neighbors = neighbors, !.delta = delta,
                                  !.pre_trust_weight = pre_trust_weight]

\* peers[i].heartbeat(neighbors, delta, pre_trust_weight), neighbors a part
\* of the snapshot
Heartbeat(i, S, delta, pre_trust_weight) ==
    /\ ~panicked
    /\ calls < MaxCalls
    /\ HeartbeatCall(i, Restrict(snapshot, S), delta, pre_trust_weight)
    /\ calls' = calls + 1
    /\ UNCHANGED <<snapshot, run>>
    /\ UNCHANGED chipVars

Next ==
    \/ \E i \in DOMAIN peers, j \in DOMAIN peers, w \in Weights : AddNeighbor(i, j, w)
    \/ Snapshot
    \/ \E i \in DOMAIN peers, delta \in Deltas, a \in PreTrustWeights :
           \E S \in Slices(i) : Heartbeat(i, S, delta, a)

Spec == Init /\ [][Next]_vars

-----------------------------------------------------------------------------
(* The round loop: rounds of heartbeat calls against one snapshot *)

\* Round budget of the symmetric two-peer run.
SymRounds == 30

\* Every peer reports is_converged().
AllConverged(ps) == \A i \in DOMAIN ps : is_converged(ps[i])

EngineInit ==
    /\ NoChip
    /\ \E n \in 1 .. NumPeers, graph \in Graphs, score \in InitScores,
          pre \in PreTrusts :
           peers = Network(n, graph, score, pre)
    /\ snapshot = <<>>
    /\ panicked = FALSE
    /\ last = NoCall
    /\ calls = 0
    /\ \E delta \in Deltas, a \in PreTrustWeights :
           run = [IdleRun EXCEPT !.pc = "check", !.delta = delta,
                                 !.pre_trust_weight = a, !.budget = MaxRounds]

\* Two peers trusting each other with weight 1.0, pre-trust 0.5, initial
\* score 0.0; pre_trust_weight 0.4 and delta 1e-6.
SymInit ==
    /\ NoChip
    /\ peers = [i \in {0, 1} |-> add_neighbor(new(i, Zero, Half), 1 - i, One)]
    /\ snapshot = <<>>
    /\ panicked = FALSE
    /\ last = NoCall
    /\ calls = 0
    /\ run = [IdleRun EXCEPT !.pc = "check", !.delta = Scale \div (10 ^ 6),
                             !.pre_trust_weight = (4 * Scale) \div 10,
                             !.budget = SymRounds]

\* A round starts: the peers are snapshotted and every peer is pending.
StartRound ==
    /\ run.pc = "check"
    /\ ~AllConverged(peers)
    /\ run.round < run.budget
    /\ snapshot' = CloneAll(peers, 0, Cardinality(DOMAIN peers))
    /\ run' = [run EXCEPT !.pc = "update", !.round = @ + 1,
                          !.pending = DOMAIN peers]
    /\ UNCHANGED <<peers, panicked, last, calls>>
    /\ UNCHANGED chipVars

\* A pending peer is updated against the round's snapshot.
UpdatePeer(i) ==
    /\ run.pc = "update"
    /\ i \in run.pending
    /\ HeartbeatCall(i, snapshot, run.delta, run.pre_trust_weight)
    /\ run' = [run EXCEPT !.pending = @ \ {i},
                          !.pc = IF panicked' THEN "aborted"
                                 ELSE IF run.pending = {i} THEN "check"
                                 ELSE "update"]
    /\ UNCHANGED <<snapshot, calls>>
    /\ UNCHANGED chipVars

\* The loop stops: every peer is converged, or the budget is used up.
StopLoop ==
    /\ run.pc = "check"
    /\ AllConverged(peers) \/ run.round >= run.budget
    /\ run' = [run EXCEPT !.pc = "done",
                          !.outcome = IF AllConverged(peers) THEN "converged"
                                      ELSE "not_converged"]
    /\ UNCHANGED <<peers, snapshot, panicked, last, calls>>
    /\ UNCHANGED chipVars

EngineNext ==
    \/ StartRound
    \/ \E i \in DOMAIN peers : UpdatePeer(i)
    \/ StopLoop

SpecEngine == EngineInit /\ [][EngineNext]_vars /\ WF_vars(EngineNext)

SpecSym == SymInit /\ [][EngineNext]_vars /\ WF_vars(EngineNext)

\* The indices of a three-peer network, and the first and the second of
\* the two peers other than i
MassIndexes == Indexes(3)
FirstOther(i) == CHOOSE j \in MassIndexes \ {i} :
                     \A k \in MassIndexes \ {i} : j <= k
SecondOther(i) == CHOOSE j \in MassIndexes \ {i} :
                      \A k \in MassIndexes \ {i} : j >= k

\* Three peers, each dividing a total weight of 1.0 between the two others
\* (share[i] to the first, the rest to the second, an entry for both), with
\* pre-trusts 0.5, 0.25, 0.25 and any initial scores; the halves and
\* quarters keep every product of the first rounds exact, as f64 does.
MassInit ==
    /\ NoChip
    /\ \E share \in [MassIndexes -> {Zero, Half, One}],
          score \in [MassIndexes -> InitScores] :
           peers = [i \in MassIndexes |->
                       add_neighbor(
                           add_neighbor(new(i, score[i],
                                            IF i = 0 THEN Half ELSE Quarter),
                                        FirstOther(i), share[i]),
                           SecondOther(i), One - share[i])]
    /\ snapshot = <<>>
    /\ panicked = FALSE
    /\ last = NoCall
    /\ calls = 0
    /\ \E delta \in Deltas, a \in PreTrustWeights :
           run = [IdleRun EXCEPT !.pc = "check", !.delta = delta,
                                 !.pre_trust_weight = a, !.budget = MassRounds]

SpecMass == MassInit /\ [][EngineNext]_vars /\ WF_vars(EngineNext)

-----------------------------------------------------------------------------
(* AbsorbChip::synthesize, step by step, and the check of its assignment *)

\* Values of the caller's cells
PrevValues == {Unknown, Known(3), Known(5)}
ChunkValues == {Unknown, Known(2), Known(7), Known(10)}

\* No peers.
NoPeers ==
    /\ peers = EmptyMap
    /\ snapshot = <<>>
    /\ panicked = FALSE
    /\ last = NoCall
    /\ calls = 0
    /\ run = IdleRun

\* AbsorbChip::new(prev_state, state): the caller has assigned the previous
\* state in row 0 and the chunk in row 1; the layouter will place the
\* chip's region at some later row.
AbsorbInit ==
    /\ NoPeers
    /\ \E pv \in [Columns -> PrevValues], cv \in [Columns -> ChunkValues] :
           /\ chip = [prev_state |-> [c \in 1 .. WIDTH |-> AssignedCell(0, c - 1, pv[c - 1])],
                      state      |-> [c \in 1 .. WIDTH |-> AssignedCell(1, c - 1, cv[c - 1])]]
           /\ advice = [r \in Rows |-> [c \in Columns |->
                          IF r = 0 THEN [Unassigned EXCEPT !.assigned = TRUE,
                                              !.how = "caller", !.value = pv[c]]
                          ELSE IF r = 1 THEN [Unassigned EXCEPT !.assigned = TRUE,
                                              !.how = "caller", !.value = cv[c]]
                          ELSE Unassigned]]
    /\ selectors = {}
    /\ copies = {}
    /\ \E start \in 2 .. (TableRows - 3) :
           ctx = [NoCtx EXCEPT !.pc = "start", !.region_start = start]
    /\ output = NoOutput
    /\ verdict = NoVerdict

\* The row of the table the RegionCtx is at
CurrentRow == ctx.region_start + ctx.offset

\* A failed step after which the cells assigned so far are returned
Fail_ReturnsCells ==
    /\ ctx' = [ctx EXCEPT !.pc = "failed"]
    /\ output' = [status |-> "ok", cells |-> ctx.next_state]

\* A step of synthesize fails: the error is returned, nothing more is done.
Fail ==
    /\ ctx' = [ctx EXCEPT !.pc = "failed"]
    /\ output' = [status |-> "error", cells |-> <<>>]

\* RegionCtx::new(region, 0); ctx.enable(selector)?
EnableSelector(ok) ==
    /\ ctx.pc = "start"
    /\ IF ok
       THEN /\ selectors' = enable(selectors, CurrentRow)
            /\ ctx' = [ctx EXCEPT !.pc = "load_state", !.k = 0]
            /\ UNCHANGED output
       ELSE Fail /\ UNCHANGED selectors
    /\ UNCHANGED <<chip, advice, copies, verdict>>
    /\ UNCHANGED peerVars

\* copy_state(&mut ctx, common, &self.prev_state)?, one column; after the
\* last column, ctx.next()
LoadState(ok) ==
    /\ ctx.pc = "load_state"
    /\ IF ok
       THEN LET region == copy_state([advice |-> advice, copies |-> copies],
                                     CurrentRow, ctx.k, chip.prev_state)
                cell == AssignedCell(CurrentRow, ctx.k,
                                     region.advice[CurrentRow][ctx.k].value)
                done == ctx.k + 1 = WIDTH
            IN  /\ advice' = region.advice
                /\ copies' = region.copies
                /\ ctx' = [ctx EXCEPT !.loaded_state = Append(@, cell),
                                      !.k = IF done THEN 0 ELSE @ + 1,
                                      !.offset = IF done THEN @ + 1 ELSE @,
                                      !.pc = IF done THEN "load_chunk" ELSE @]
                /\ UNCHANGED output
       ELSE Fail /\ UNCHANGED <<advice, copies>>
    /\ UNCHANGED <<chip, selectors, verdict>>
    /\ UNCHANGED peerVars

\* copy_state(&mut ctx, common, &self.state)?, one column; after the last
\* column, ctx.next()
LoadChunk(ok) ==
    /\ ctx.pc = "load_chunk"
    /\ IF ok
       THEN LET region == copy_state([advice |-> advice, copies |-> copies],
                                     CurrentRow, ctx.k, chip.state)
                cell == AssignedCell(CurrentRow, ctx.k,
                                     region.advice[CurrentRow][ctx.k].value)
                done == ctx.k + 1 = WIDTH
            IN  /\ advice' = region.advice
                /\ copies' = region.copies
                /\ ctx' = [ctx EXCEPT !.loaded_chunk = Append(@, cell),
                                      !.k = IF done THEN 0 ELSE @ + 1,
                                      !.offset = IF done THEN @ + 1 ELSE @,
                                      !.pc = IF done THEN "next_state" ELSE @]
                /\ UNCHANGED output
       ELSE Fail /\ UNCHANGED <<advice, copies>>
    /\ UNCHANGED <<chip, selectors, verdict>>
    /\ UNCHANGED peerVars

\* The try_map over the columns, one column: the sum is computed and
\* assigned; after the last column, Ok(next_state) is returned.
AssignNextState(ok) ==
    /\ ctx.pc = "next_state"
    /\ IF ok
       THEN LET pair == zip(ctx.loaded_chunk, ctx.loaded_state, ctx.k)
                value == sum(pair[1].value, pair[2].value)
                region == assign_advice([advice |-> advice, copies |-> copies],
                                        CurrentRow, ctx.k, value)
                cell == AssignedCell(CurrentRow, ctx.k, value)
                done == ctx.k + 1 = WIDTH
            IN  /\ advice' = region.advice
                /\ copies' = region.copies
                /\ ctx' = [ctx EXCEPT !.next_state = Append(@, cell),
                                      !.k = IF done THEN 0 ELSE @ + 1,
                                      !.pc = IF done THEN "done" ELSE @]
                /\ output' = IF done
                             THEN [status |-> "ok",
                                   cells |-> Append(ctx.next_state, cell)]
                             ELSE output
       ELSE Fail /\ UNCHANGED <<advice, copies>>
    /\ UNCHANGED <<chip, selectors, verdict>>
    /\ UNCHANGED peerVars

\* The rows of the chip's region
RegionRows == ctx.region_start .. (ctx.region_start + 2)

\* Every cell of the caller's rows and of the region holds a known value.
WitnessKnown ==
    \A r \in {0, 1} \cup RegionRows, c \in Columns :
        advice[r][c].assigned /\ advice[r][c].value.known

NothingForged == \A r \in Rows, c \in Columns : ~advice[r][c].forged

\* A prover puts another value in one cell of the region.
Forge(r, c, v) ==
    /\ ctx.pc = "done"
    /\ ~verdict.checked
    /\ WitnessKnown
    /\ NothingForged
    /\ advice[r][c].value # Known(v)
    /\ advice' = [advice EXCEPT ![r][c].value = Known(v), ![r][c].forged = TRUE]
    /\ UNCHANGED <<chip, selectors, copies, ctx, output, verdict>>
    /\ UNCHANGED peerVars

\* The assignment is checked against the gate and the copy constraints.
Verify ==
    /\ ctx.pc = "done"
    /\ ~verdict.checked
    /\ WitnessKnown
    /\ verdict' = [checked |-> TRUE,
                   gates  |-> GateSatisfied(advice, selectors),
                   copies |-> CopiesSatisfied(advice, copies)]
    /\ UNCHANGED <<chip, advice, selectors, copies, ctx, output>>
    /\ UNCHANGED peerVars

AbsorbNext ==
    \/ \E ok \in BOOLEAN : EnableSelector(ok)
    \/ \E ok \in BOOLEAN : LoadState(ok)
    \/ \E ok \in BOOLEAN : LoadChunk(ok)
    \/ \E ok \in BOOLEAN : AssignNextState(ok)
    \/ \E r \in RegionRows, c \in Columns, v \in Field : Forge(r, c, v)
    \/ Verify

SpecAbsorb == AbsorbInit /\ [][AbsorbNext]_vars

-----------------------------------------------------------------------------
(* Properties of Peer and of the round loop *)

\* The last step was a call of heartbeat that found the peer not converged.
LiveHeartbeat == last.op = "heartbeat" /\ ~last.before.is_converged

\* The sum of the update rule, as the specification words it: over the
\* entries j of the slice other than i, j's local trust toward i (zero
\* where j declares none) times j's global score.
RECURSIVE OpinionSum(_, _)
OpinionSum(i, slice) ==
    IF slice = <<>> THEN Zero
    ELSE LET j == Head(slice)
             term == IF j.index = i \/ i \notin DOMAIN j.local_trust_scores
                     THEN Zero
                     ELSE Mul(j.local_trust_scores[i], j.global_trust_score)
         IN  term + OpinionSum(i, Tail(slice))

\* next = (1 - preTrustWeight) * raw + preTrustWeight * preTrustScore
NextScore(p, slice, a) ==
    Mul(One - a, OpinionSum(p.index, slice)) + Mul(a, p.pre_trust_score)

\* C1: once a peer's is_converged flag is true, a further call of heartbeat
\* on it, with any slice, delta and pre_trust_weight, changes no field of
\* the peer (and no other peer), and does not panic.
C1_ConvergedHeartbeatIsNoOp ==
    [][(calls' = calls + 1 /\ last'.op = "heartbeat"
            /\ peers[last'.i].is_converged)
        => (peers' = peers /\ ~panicked')]_vars

\* A converged peer has been sent a heartbeat that would have moved the
\* score of a peer not converged.
C1_Witness ==
    /\ last.op = "heartbeat"
    /\ last.before.is_converged
    /\ last.neighbors # <<>>
    /\ peers[last.i] = last.before
    /\ NextScore(last.before, last.neighbors, last.pre_trust_weight)
           # last.before.global_trust_score

\* C2: the convergence latch is permanent: a peer whose is_converged flag
\* is true keeps it over every step, add_neighbor steps included.
C2_LatchIsPermanent ==
    [][\A i \in DOMAIN peers : peers[i].is_converged => peers'[i].is_converged]_vars

\* add_neighbor has changed the local trust of a converged peer.
C2_Witness ==
    /\ last.op = "add_neighbor"
    /\ last.before.is_converged
    /\ peers[last.i].local_trust_scores # last.before.local_trust_scores
    /\ peers[last.i].is_converged

\* C3: in heartbeat of peer i, a slice entry j # i with no local trust
\* toward i contributes zero and the lookup does not panic.
C3_MissingEntryIsZero ==
    LiveHeartbeat =>
        /\ ~panicked
        /\ peers[last.i].global_trust_score
               = NextScore(last.before, last.neighbors, last.pre_trust_weight)

\* The entries a slice could hold at peer i's own index: any score, with or
\* without an opinion of itself.
SelfEntries(i) ==
    {new(i, g, Quarter) : g \in {Zero, One}}
    \cup {add_neighbor(new(i, g, Quarter), i, w) : g \in {Zero, One}, w \in Weights}

ReplaceSelf(slice, i, entry) ==
    [k \in DOMAIN slice |-> IF slice[k].index = i THEN entry ELSE slice[k]]

\* C4: zero self-influence: the score heartbeat gives peer i is the update
\* rule's sum over the other entries only, and is the same whatever the
\* slice holds at i's own index and whatever i declares about itself.
C4_ZeroSelfInfluence ==
    (LiveHeartbeat /\ ~panicked) =>
        LET i == last.i
            got == peers[i].global_trust_score
        IN  /\ got = NextScore(last.before, last.neighbors, last.pre_trust_weight)
            /\ \A e \in SelfEntries(i), w \in Weights :
                   LET r == heartbeat(add_neighbor(last.before, i, w),
                                      ReplaceSelf(last.neighbors, i, e),
                                      last.delta, last.pre_trust_weight)
                   IN  ~r.panicked /\ r.peer.global_trust_score = got

\* heartbeat ran over a slice holding the peer's own entry, which declares
\* trust in itself and has a positive score, and another peer's entry.
C4_Witness ==
    /\ LiveHeartbeat /\ ~panicked
    /\ Len(last.neighbors) >= 2
    /\ \E k \in DOMAIN last.neighbors :
           /\ last.neighbors[k].index = last.i
           /\ last.i \in DOMAIN last.neighbors[k].local_trust_scores
           /\ last.neighbors[k].local_trust_scores[last.i] > 0
           /\ last.neighbors[k].global_trust_score > 0
    /\ last.pre_trust_weight < One

\* No peer has a neighbour.
Isolated == \A i \in DOMAIN peers : peers[i].local_trust_scores = EmptyMap

\* C5: isolated network: after exactly one round every peer is converged
\* and its score is preTrustWeight * preTrustScore.
C5_IsolatedOneRound ==
    (Isolated /\ run.round = 1 /\ run.pc # "update") =>
        /\ ~panicked
        /\ \A i \in DOMAIN peers :
               /\ peers[i].is_converged
               /\ peers[i].global_trust_score
                      = Mul(run.pre_trust_weight, peers[i].pre_trust_score)

\* What a round makes of peer p, from the round's snapshot alone.
RoundImage(p, snap, delta, a) ==
    IF p.is_converged THEN p
    ELSE [p EXCEPT !.global_trust_score = NextScore(p, snap, a),
                   !.is_converged =
                       Abs(NextScore(p, snap, a) - p.global_trust_score) <= delta]

\* C6: order independence within a round: whatever the order of the
\* updates, a peer already updated holds what the round-start snapshot
\* alone determines and a peer not yet updated holds its snapshot state.
C6_OrderIndependent ==
    (run.round >= 1 /\ ~panicked) =>
        \A i \in DOMAIN peers :
            peers[i] = IF run.pc = "update" /\ i \in run.pending
                       THEN snapshot[i + 1]
                       ELSE RoundImage(snapshot[i + 1], snapshot, run.delta,
                                       run.pre_trust_weight)

\* A round has ended in which two peers moved and one of them is trusted
\* by the other: an update reading the live peers would depend on the order.
C6_Witness ==
    /\ run.pc = "check" /\ run.round >= 1 /\ ~panicked
    /\ \E i, j \in DOMAIN peers :
           /\ i # j
           /\ peers[i].global_trust_score # snapshot[i + 1].global_trust_score
           /\ peers[j].global_trust_score # snapshot[j + 1].global_trust_score
           /\ i \in DOMAIN peers[j].local_trust_scores
           /\ peers[j].local_trust_scores[i] > 0

\* Every peer's score is within eps of 0.5.
WithinOfHalf(eps) ==
    \A i \in DOMAIN peers : Abs(peers[i].global_trust_score - Half) <= eps

\* C7 as stated: once both peers of the symmetric run are latched, each
\* score is within 1e-6 of 0.5.
C7_WithinDelta == AllConverged(peers) => WithinOfHalf(Scale \div (10 ^ 6))

\* C7, amended: the symmetric run eventually latches both peers, and once
\* both are latched each score is within 1.5e-6 of 0.5.
C7_SymmetricConvergence ==
    /\ <>AllConverged(peers)
    /\ [](AllConverged(peers) => WithinOfHalf((3 * Scale) \div (2 * (10 ^ 6))))

\* Both peers are latched, farther than 1e-6 from 0.5.
C7_Witness ==
    /\ AllConverged(peers)
    /\ run.pc = "done" /\ run.outcome = "converged"
    /\ ~WithinOfHalf(Scale \div (10 ^ 6))

\* What holds of the loop at every moment: the budget is kept, no round is
\* started once every peer is converged, and the outcome reported at the
\* stop is "converged" exactly when every flag is true, and otherwise
\* "not_converged", reported with the budget used up and without a panic.
LoopSafety ==
    /\ run.round <= run.budget
    /\ run.pc = "update" => ~(\A k \in DOMAIN snapshot : snapshot[k].is_converged)
    /\ run.pc = "done" =>
           /\ run.outcome \in {"converged", "not_converged"}
           /\ run.outcome = "converged" <=>
                  \A i \in DOMAIN peers : peers[i].is_converged
           /\ run.outcome = "not_converged" =>
                  run.round = run.budget /\ ~panicked
    /\ run.pc # "done" => run.outcome = "none"

-----------------------------------------------------------------------------
(* Properties of the absorb gadget *)

\* The field element at a position of the table
CellValue(r, c) == advice[r][c].value.v

\* Row r + 2 is the element-wise field sum of rows r and r + 1.
RowIsSum(r) ==
    \A c \in Columns :
        CellValue(r + 2, c) = (CellValue(r, c) + CellValue(r + 1, c)) % FieldModulus

\* C9: gate correctness: an assignment satisfies the "absorb" gate exactly
\* when, at every row r where the selector is enabled, row r + 2 is the
\* element-wise field sum of rows r and r + 1 in every column; rows where
\* the selector is not enabled are not constrained.
C9_GateCorrectness ==
    verdict.checked => (verdict.gates <=> \A r \in selectors : RowIsSum(r))

\* Previous state [3, 5] and chunk [2, 7] (the first two columns), a third
\* row that deviates from [5, 12] in a cell: the gate is violated, though
\* every copy constraint holds and the rows without selector do not add up.
C9_Witness ==
    /\ verdict.checked /\ ~verdict.gates /\ verdict.copies
    /\ chip.prev_state[1].value = Known(3) /\ chip.prev_state[2].value = Known(5)
    /\ chip.state[1].value = Known(2) /\ chip.state[2].value = Known(7)
    /\ \E c \in Columns : advice[ctx.region_start + 2][c].forged
    /\ ~RowIsSum(0)

\* C10: binding: synthesize places every previous-state cell in row 0 of
\* its region and every chunk cell in row 1 by copy-assignment, each tied
\* by a copy constraint to the caller's cell of the same column; no input
\* cell is placed by a free assignment, so an assignment that passes the
\* copy constraints carries the caller's values in both rows.
C10_Binding ==
    LET start == ctx.region_start
    IN  /\ \A c \in Columns :
               c < Len(ctx.loaded_state) =>
                   /\ ctx.loaded_state[c + 1].cell = <<start, c>>
                   /\ advice[start][c].how = "copy"
                   /\ <<<<start, c>>, chip.prev_state[c + 1].cell>> \in copies
        /\ \A c \in Columns :
               c < Len(ctx.loaded_chunk) =>
                   /\ ctx.loaded_chunk[c + 1].cell = <<start + 1, c>>
                   /\ advice[start + 1][c].how = "copy"
                   /\ <<<<start + 1, c>>, chip.state[c + 1].cell>> \in copies
        /\ ctx.pc \in {"load_chunk", "next_state", "done"} =>
               Len(ctx.loaded_state) = WIDTH
        /\ ctx.pc \in {"next_state", "done"} => Len(ctx.loaded_chunk) = WIDTH
        /\ \A r \in {start, start + 1}, c \in Columns : advice[r][c].how # "free"
        /\ (verdict.checked /\ verdict.copies) =>
               \A c \in Columns :
                   /\ advice[start][c].value = chip.prev_state[c + 1].value
                   /\ advice[start + 1][c].value = chip.state[c + 1].value

\* synthesize has returned with all 2 * WIDTH input cells bound, and the
\* check has caught a cell of row 0 that no longer carries the caller's value.
C10_Witness ==
    /\ output.status = "ok"
    /\ Cardinality(copies) = 2 * WIDTH
    /\ verdict.checked /\ ~verdict.copies
    /\ \E c \in Columns : advice[ctx.region_start][c].forged

\* What synthesize is to assign to the output cell of column c: unknown if
\* the previous-state value or the chunk value of the column is unknown,
\* and their field sum otherwise.
ExpectedOutput(c) ==
    LET p == chip.prev_state[c + 1].value
        s == chip.state[c + 1].value
    IN  IF p.known /\ s.known
        THEN [known |-> TRUE, v |-> (p.v + s.v) % FieldModulus]
        ELSE [known |-> FALSE, v |-> 0]

\* C11: unknown propagation: the value synthesize assigns to the output
\* cell of column c is unknown if the previous-state or the chunk value of
\* column c is unknown and is the known field sum otherwise; an unknown
\* input never yields a concrete value and never causes an error: the
\* assignment of the column can go ahead whatever is unknown.
C11_UnknownPropagation ==
    /\ \A c \in Columns :
           c < Len(ctx.next_state) =>
               /\ ctx.next_state[c + 1].value = ExpectedOutput(c)
               /\ advice[ctx.region_start + 2][c].forged
                      \/ advice[ctx.region_start + 2][c].value = ExpectedOutput(c)
    /\ output.status = "ok" =>
           \A c \in Columns : output.cells[c + 1].value = ExpectedOutput(c)
    /\ ctx.pc = "next_state" => ENABLED AssignNextState(TRUE)

\* synthesize has returned Ok with one column unknown, because one of its
\* inputs is, and another column known.
C11_Witness ==
    /\ output.status = "ok"
    /\ \E c, d \in Columns :
           /\ ~output.cells[c + 1].value.known
           /\ chip.prev_state[c + 1].value.known # chip.state[c + 1].value.known
           /\ output.cells[d + 1].value.known

\* C12: add_neighbor(j, w) records the weight: afterwards
\* get_local_trust_score(j) returns w, whatever weight j had before; the
\* weights toward all other indices, the global score, the pre-trust score,
\* the index and the converged flag of the peer are as they were.
C12_AddNeighborFrame ==
    last.op = "add_neighbor" =>
        LET p == peers[last.i]
            old == last.before
            j == last.peer_index
        IN  /\ ~IndexPanics(p, j)
            /\ get_local_trust_score(p, j) = last.local_trust_value
            /\ DOMAIN p.local_trust_scores = (DOMAIN old.local_trust_scores) \cup {j}
            /\ \A k \in (DOMAIN old.local_trust_scores) \ {j} :
                   p.local_trust_scores[k] = old.local_trust_scores[k]
            /\ get_global_trust_score(p) = get_global_trust_score(old)
            /\ get_pre_trust_score(p) = get_pre_trust_score(old)
            /\ get_index(p) = get_index(old)
            /\ is_converged(p) = is_converged(old)

\* add_neighbor has replaced an earlier, different weight of a converged
\* peer that also holds a weight toward another index.
C12_Witness ==
    /\ last.op = "add_neighbor"
    /\ last.peer_index \in DOMAIN last.before.local_trust_scores
    /\ last.before.local_trust_scores[last.peer_index] # last.local_trust_value
    /\ (DOMAIN last.before.local_trust_scores) \ {last.peer_index} # {}
    /\ last.before.is_converged

C14_HeartbeatFrame ==
    [][(calls' = calls + 1 /\ last'.op = "heartbeat") =>
           LET i == last'.i
           IN  /\ peers'[i].index = peers[i].index
               /\ peers'[i].pre_trust_score = peers[i].pre_trust_score
               /\ peers'[i].local_trust_scores = peers[i].local_trust_scores
               /\ DOMAIN peers' = DOMAIN peers
               /\ \A j \in (DOMAIN peers) \ {i} : peers'[j] = peers[j]
               /\ snapshot' = snapshot]_vars

\* A heartbeat over a slice holding another peer has changed both the
\* score and the converged flag of a peer that declares local trust.
C14_Witness ==
    /\ LiveHeartbeat /\ ~panicked
    /\ peers[last.i].global_trust_score # last.before.global_trust_score
    /\ peers[last.i].is_converged
    /\ last.before.local_trust_scores # EmptyMap
    /\ \E k \in 1..Len(last.neighbors) : last.neighbors[k].index # last.i

\* Every input of the chip, previous state and chunk, is known.
InputsKnown ==
    \A c \in 1 .. WIDTH : chip.prev_state[c].value.known /\ chip.state[c].value.known

\* C15: a successful synthesize uses one region with the selector enabled
\* at row offset 0 only, the previous state in row 0, the chunk in row 1
\* and the sums in row 2, assigned in that order; it returns exactly the
\* WIDTH cells of row 2, and for known inputs the assignment it produces
\* satisfies the absorb gate at row 0: row 2 = row 0 + row 1 in every
\* column.
C15_RegionLayout ==
    LET start == ctx.region_start
        Mine(r, c, how, value) ==
            /\ advice[r][c].assigned
            /\ advice[r][c].how = how
            /\ advice[r][c].forged \/ advice[r][c].value = value
    IN  /\ \A c, d \in Columns :
               /\ advice[start + 2][c].assigned => advice[start + 1][d].assigned
               /\ advice[start + 1][c].assigned => advice[start][d].assigned
               /\ advice[start][c].assigned => selectors = {start}
        /\ output.status = "ok" =>
               /\ selectors = {start}
               /\ ctx.offset = 2
               /\ \A c \in Columns :
                      /\ Mine(start, c, "copy", chip.prev_state[c + 1].value)
                      /\ Mine(start + 1, c, "copy", chip.state[c + 1].value)
                      /\ Mine(start + 2, c, "free", output.cells[c + 1].value)
               /\ \A r \in Rows \ ({0, 1} \cup RegionRows), c \in Columns :
                      ~advice[r][c].assigned
               /\ Len(output.cells) = WIDTH
               /\ \A c \in Columns : output.cells[c + 1].cell = <<start + 2, c>>
               /\ (InputsKnown /\ NothingForged) =>
                      /\ \A c \in Columns : absorb_gate(advice, selectors, start, c) = 0
                      /\ GateSatisfied(advice, selectors)
                      /\ RowIsSum(start)

\* synthesize has returned Ok for the known previous state [3, 5] and chunk
\* [2, 7] (the first two columns) with a region that does not start where
\* the caller's rows end, and nothing has been altered since.
C15_Witness ==
    /\ output.status = "ok"
    /\ InputsKnown /\ NothingForged
    /\ ctx.region_start > 2
    /\ chip.prev_state[1].value = Known(3) /\ chip.prev_state[2].value = Known(5)
    /\ chip.state[1].value = Known(2) /\ chip.state[2].value = Known(7)
    /\ output.cells[1].value = Known(5) /\ output.cells[2].value = Known(12)

\* The values synthesize assigns to row 2 for the cells it has loaded, as
\* the try_map of absorb.rs computes them, column by column.
next_state_values(loaded_chunk, loaded_state) ==
    [c \in Columns |->
        LET pair == zip(loaded_chunk, loaded_state, c)
        IN  sum(pair[1].value, pair[2].value)]

\* The cells with the value of column d replaced by x
WithValue(cells, d, x) == [cells EXCEPT ![d + 1].value = x]

\* The table with the value of the cell at row r of column d replaced by x
WithCell(tbl, r, d, x) == [tbl EXCEPT ![r][d].value = x]

\* C16: column-parallel absorption: the gate term and the synthesized
\* output of column c depend only on the previous-state and chunk values of
\* column c: with any other value, known or unknown, as the previous-state
\* or chunk input of another column d, the output value of column c is the
\* one synthesize returned, and with any other value in a cell of column d
\* the gate term of column c evaluates as it does on the assignment
\* synthesize produced.
C16_ColumnParallel ==
    (output.status = "ok" /\ NothingForged) =>
        LET start == ctx.region_start
            out == next_state_values(chip.state, chip.prev_state)
        IN  \A c \in Columns :
                /\ output.cells[c + 1].value = out[c]
                /\ \A d \in Columns \ {c} :
                       /\ \A x \in PrevValues \cup ChunkValues :
                              /\ next_state_values(chip.state,
                                     WithValue(chip.prev_state, d, x))[c] = out[c]
                              /\ next_state_values(WithValue(chip.state, d, x),
                                     chip.prev_state)[c] = out[c]
                       /\ \A r \in RegionRows, x \in PrevValues \cup ChunkValues :
                              absorb_gate(WithCell(advice, r, d, x), selectors, start, c)
                                  = absorb_gate(advice, selectors, start, c)

\* synthesize has returned Ok with two columns whose inputs, and whose
\* outputs, differ, so that an output taken from the other column shows.
C16_Witness ==
    /\ output.status = "ok"
    /\ InputsKnown /\ NothingForged
    /\ \E c, d \in Columns :
           /\ chip.prev_state[c + 1].value # chip.prev_state[d + 1].value
           /\ chip.state[c + 1].value # chip.state[d + 1].value
           /\ output.cells[c + 1].value # output.cells[d + 1].value

\* C17: no partial success in synthesis: if enabling the selector, a
\* copy-assignment of row 0 or row 1, or an assignment of row 2 fails,
\* synthesize stops at that step and returns the synthesis error: the
\* failing step assigns nothing, no assignment, copy constraint or selector
\* is added afterwards, and output cells are returned only by a run whose
\* every step succeeded.
C17_NoPartialSuccess ==
    /\ [](ctx.pc = "failed" => output = [status |-> "error", cells |-> <<>>])
    /\ [](output.status = "ok" =>
              /\ ctx.pc = "done"
              /\ Len(output.cells) = WIDTH
              /\ Len(ctx.loaded_state) = WIDTH /\ Len(ctx.loaded_chunk) = WIDTH)
    /\ [](output.status = "none" => ctx.pc \notin {"failed", "done"})
    /\ [][(ctx.pc # "failed" /\ ctx'.pc = "failed") =>
              (advice' = advice /\ copies' = copies /\ selectors' = selectors)]_vars
    /\ [][ctx.pc = "failed" =>
              (advice' = advice /\ copies' = copies /\ selectors' = selectors
                  /\ ctx' = ctx /\ output' = output)]_vars

\* The assignment of the second cell of row 2 has failed, after the
\* selector, rows 0 and 1 and the first sum had been assigned: the error is
\* what synthesize returns.
C17_Witness ==
    /\ ctx.pc = "failed"
    /\ output.status = "error"
    /\ Len(ctx.next_state) = 1
    /\ advice[ctx.region_start + 2][0].assigned
    /\ ~advice[ctx.region_start + 2][1].assigned

\* C18: a peer is created not converged whatever its initial score and
\* pre-trust; is_converged becomes true only in a heartbeat on that peer
\* which moves its global score by at most the delta passed to it, and as no
\* later step changes the score or the flag of a converged peer, that
\* heartbeat stays the last one that changed the peer's state; no other
\* operation sets the flag.
C18_LatchOrigin ==
    /\ [](/\ \A idx \in Indexes(NumPeers), g \in InitScores, p \in PreTrusts :
                 ~is_converged(new(idx, g, p))
          /\ calls = 0 => \A i \in DOMAIN peers : ~peers[i].is_converged)
    /\ [][\A i \in DOMAIN peers :
              /\ (~peers[i].is_converged /\ peers'[i].is_converged) =>
                     /\ calls' = calls + 1
                     /\ last'.op = "heartbeat" /\ last'.i = i
                     /\ peers'[i].global_trust_score - peers[i].global_trust_score
                            <= last'.delta
                     /\ peers[i].global_trust_score - peers'[i].global_trust_score
                            <= last'.delta
              /\ peers[i].is_converged =>
                     /\ peers'[i].is_converged
                     /\ peers'[i].global_trust_score = peers[i].global_trust_score]_vars

\* One peer has latched, and the heartbeat just made on another peer, with
\* a positive delta, has lowered that peer's score by more than delta and
\* has left it not converged.
C18_Witness ==
    /\ LiveHeartbeat /\ ~panicked
    /\ last.delta > 0
    /\ last.before.global_trust_score - peers[last.i].global_trust_score > last.delta
    /\ ~peers[last.i].is_converged
    /\ \E i \in DOMAIN peers : i # last.i /\ peers[i].is_converged

\* The sum of the global scores of the peers ps with an index in D
RECURSIVE TotalScore(_, _)
TotalScore(ps, D) ==
    IF D = {} THEN 0
    ELSE LET i == CHOOSE x \in D : TRUE
         IN  ps[i].global_trust_score + TotalScore(ps, D \ {i})

\* The sum of the pre-trust scores of the peers ps with an index in D
RECURSIVE TotalPreTrust(_, _)
TotalPreTrust(ps, D) ==
    IF D = {} THEN 0
    ELSE LET i == CHOOSE x \in D : TRUE
         IN  ps[i].pre_trust_score + TotalPreTrust(ps, D \ {i})

\* The sum of the weights of the map m toward the indices of D
RECURSIVE TotalWeight(_, _)
TotalWeight(m, D) ==
    IF D = {} THEN 0
    ELSE LET j == CHOOSE x \in D : TRUE
         IN  m[j] + TotalWeight(m, D \ {j})

\* The round started from a state in which every peer's outgoing weights
\* sum to 1 with none on itself, every pair has an entry, the pre-trusts
\* sum to 1 and no peer is converged.
MassPrecondition ==
    /\ \A k \in DOMAIN snapshot :
           LET p == snapshot[k]
               others == {snapshot[x].index : x \in DOMAIN snapshot} \ {p.index}
           IN  /\ others \subseteq DOMAIN p.local_trust_scores
               /\ p.index \in DOMAIN p.local_trust_scores =>
                      p.local_trust_scores[p.index] = 0
               /\ TotalWeight(p.local_trust_scores, others) = One
               /\ ~p.is_converged
    /\ TotalPreTrust(snapshot, DOMAIN snapshot) = One

\* C19: trust mass is preserved by a round: if every peer's outgoing
\* weights sum to 1 with no weight on itself, every pair has an entry, all
\* pre-trust scores sum to 1 and no peer is converged at the start of the
\* round, the sum S' of all global scores after the round is
\* (1 - pre_trust_weight) * S + pre_trust_weight, S being the sum before;
\* in particular S = 1 is kept.
C19_TrustMass ==
    (run.pc = "check" /\ run.round >= 1 /\ ~panicked /\ MassPrecondition) =>
        LET S == TotalScore(snapshot, DOMAIN snapshot)
            after == TotalScore(peers, DOMAIN peers)
        IN  /\ after = Mul(One - run.pre_trust_weight, S) + run.pre_trust_weight
            /\ S = One => after = One

\* A round has ended that started with three peers of different scores
\* summing to something else than 1, one of which gave all its weight to a
\* single peer, under a positive pre_trust_weight: the sum has changed.
C19_Witness ==
    /\ run.pc = "check" /\ run.round >= 1 /\ ~panicked /\ MassPrecondition
    /\ Len(snapshot) = 3
    /\ run.pre_trust_weight > 0
    /\ TotalScore(snapshot, DOMAIN snapshot) # One
    /\ TotalScore(peers, DOMAIN peers) # TotalScore(snapshot, DOMAIN snapshot)
    /\ \E k, l \in DOMAIN snapshot :
           /\ snapshot[k].global_trust_score # snapshot[l].global_trust_score
           /\ \E j \in DOMAIN snapshot[k].local_trust_scores :
                  snapshot[k].local_trust_scores[j] = One
           /\ \E j \in DOMAIN snapshot[l].local_trust_scores :
                  snapshot[l].local_trust_scores[j] = Half

====
